---- MODULE Spec2Model ----
(***************************************************************************)
(* The document-to-stories pipeline: TopicExtractor, EvidenceCollector,    *)
(* StoryGenerator, AutoDocumentProcessor and the HTTP entry point.         *)
(*                                                                         *)
(* Python values are modelled by shape: a list is a sequence, a dict a     *)
(* function over its keys, None the record NoneVal.  A string that the     *)
(* code only passes around is a TLA+ string; a string that the code takes  *)
(* apart (a response line) is a sequence of pieces, see the parser below.  *)
(***************************************************************************)
EXTENDS Integers, Sequences, FiniteSets, TLC

VARIABLES
    \* AutoDocumentProcessor.process_documents
    pc, documents, topics, evidence, stories, catIdx, ret, calls, genResult,
    \* TopicExtractor._parse_topics, one response line at a time
    pst, refst, plen, pout,
    \* TopicExtractor.extract_topics
    xpc, xdocs, xsummaries, xbatch, xsyn, xfinal, xsent, xout,
    \* EvidenceCollector.collect_evidence
    epc, ecount, ework, eidx, ecands, ebest, ereply, eby, eret,
    \* EvidenceCollector._score_evidence on two chunks
    sA, sB, sTopic, sSim, sScores,
    \* api/index.py process_documents
    apc, akey, afiles, anext, adocs, acore, aresp

orchVars == <<pc, documents, topics, evidence, stories, catIdx, ret, calls, genResult>>

parseVars == <<pst, refst, plen, pout>>

extractVars == <<xpc, xdocs, xsummaries, xbatch, xsyn, xfinal, xsent, xout>>

evidenceVars == <<epc, ecount, ework, eidx, ecands, ebest, ereply, eby, eret>>

scoreVars == <<sA, sB, sTopic, sSim, sScores>>

apiVars == <<apc, akey, afiles, anext, adocs, acore, aresp>>

vars == <<orchVars, parseVars, extractVars, evidenceVars, scoreVars, apiVars>>

otherThanOrch == <<parseVars, extractVars, evidenceVars, scoreVars, apiVars>>

otherThanParse == <<orchVars, extractVars, evidenceVars, scoreVars, apiVars>>

otherThanExtract == <<orchVars, parseVars, evidenceVars, scoreVars, apiVars>>

otherThanEvidence == <<orchVars, parseVars, extractVars, scoreVars, apiVars>>

otherThanScore == <<orchVars, parseVars, extractVars, evidenceVars, apiVars>>

otherThanApi == <<orchVars, parseVars, extractVars, evidenceVars, scoreVars>>

(***************************************************************************)
(* Bounds of the model.                                                    *)
(***************************************************************************)
MaxDocs == 2

MaxTopicsPerCat == 1

MaxRespLines == 3

MaxExtractDocs == 11

NChunks == 6

MaxReplyLen == 2

MaxUploads == 3

(***************************************************************************)
(* Python values.                                                          *)
(***************************************************************************)
NoneVal == [type |-> "None"]

Range(s) == {s[i] : i \in DOMAIN s}

SeqsUpTo(S, n) == UNION {[1..k -> S] : k \in 0..n}

\* dict.get(key, []) on a dict whose values are lists
GetOrEmpty(d, key) == IF key \in DOMAIN d THEN d[key] ELSE <<>>

EmptyDict == [k \in {} |-> <<>>]

(***************************************************************************)
(* TopicExtractor._get_empty_result                                        *)
(***************************************************************************)
CategoryKeys == <<"concerns", "wins", "opportunities">>

CategorySet == Range(CategoryKeys)

EmptyQuotes == [concerns |-> <<>>, wins |-> <<>>, opportunities |-> <<>>]

EmptyResult == [concerns |-> <<>>, wins |-> <<>>, opportunities |-> <<>>, quotes |-> EmptyQuotes]

(***************************************************************************)
(* Strings that _parse_topics takes apart.  A line is a sequence of        *)
(* pieces; a piece is one character (" ", "-", ">", a letter) or a header  *)
(* word that the code only compares as a whole.  The piece written         *)
(* "W{U+0131}NS:" is WINS: spelled with the dotless i (U+0131), whose      *)
(* upper case is I and whose lower case is itself.                         *)
(***************************************************************************)
HeaderPieces == {"CONCERNS:", "Wins:", "opportunities:", "W{U+0131}NS:"}

Payloads == {<<>>, <<"a">>, <<" ", "a">>, <<"a", " ", "b">>}

Pads == {<<>>, <<" ">>}

LineCores ==
    {<<h>> : h \in HeaderPieces}
    \cup {<<m, " ">> \o w : m \in {"-", ">"}, w \in Payloads}
    \cup {<<>>, <<"a">>, <<"-", "a">>, <<"Wins:", "a">>}

ResponseLines == {l \o c \o r : l \in Pads, c \in LineCores, r \in Pads}

\* str.upper
Upper(p) ==
    CASE p = "a" -> "A"
      [] p = "b" -> "B"
      [] p = "Wins:" -> "WINS:"
      [] p = "opportunities:" -> "OPPORTUNITIES:"
      [] p = "W{U+0131}NS:" -> "WINS:"
      [] OTHER -> p

\* str.lower
Lower(p) ==
    CASE p = "CONCERNS:" -> "concerns:"
      [] p = "Wins:" -> "wins:"
      [] p = "W{U+0131}NS:" -> "w{U+0131}ns:"
      [] OTHER -> p

\* str.replace(':', '')
RemoveColons(p) ==
    CASE p = "concerns:" -> "concerns"
      [] p = "wins:" -> "wins"
      [] p = "opportunities:" -> "opportunities"
      [] p = "w{U+0131}ns:" -> "w{U+0131}ns"
      [] OTHER -> p

MapPieces(Op(_), line) == [i \in DOMAIN line |-> Op(line[i])]

RECURSIVE LStrip(_)
LStrip(line) == IF line # <<>> /\ Head(line) = " " THEN LStrip(Tail(line)) ELSE line

RECURSIVE RStrip(_)
RStrip(line) ==
    IF line # <<>> /\ line[Len(line)] = " " THEN RStrip(SubSeq(line, 1, Len(line) - 1)) ELSE line

\* str.strip
Strip(line) == RStrip(LStrip(line))

\* str.startswith of a two-character marker
StartsWith(line, marker) == Len(line) >= 2 /\ SubSeq(line, 1, 2) = marker

\* line[2:]
From2(line) == SubSeq(line, 3, Len(line))

(***************************************************************************)
(* TopicExtractor._parse_topics                                            *)
(***************************************************************************)
Str(v) == [type |-> "str", value |-> v]

\* line 162: the three headers
HeaderLines == {<<"CONCERNS:">>, <<"WINS:">>, <<"OPPORTUNITIES:">>}

\* line 154, 156: result = self._get_empty_result(); current_section = None
ParseStart == [result |-> EmptyResult, section |-> NoneVal, raised |-> FALSE]

\* line 166: result[current_section].append(topic); a missing key is a
\* KeyError, modelled as NoneVal
AppendTopic(result, key, topic) ==
    IF key \in DOMAIN result THEN [result EXCEPT ![key] = Append(@, topic)] ELSE NoneVal

\* line 169: result['quotes'][current_section].append(quote)
AppendQuote(result, key, quote) ==
    IF key \in DOMAIN result.quotes
    THEN [result EXCEPT !.quotes[key] = Append(@, quote)]
    ELSE NoneVal

\* lines 158-169: the body of the loop over the lines.  After an exception
\* the loop is left, so the remaining lines change nothing.
ParseLine(st, rawLine) ==
    LET line == Strip(rawLine)
        updated ==
            IF StartsWith(line, <<"-", " ">>)
            THEN AppendTopic(st.result, st.section.value, Strip(From2(line)))
            ELSE AppendQuote(st.result, st.section.value, Strip(From2(line)))
    IN  IF st.raised \/ line = <<>>
        THEN st
        ELSE IF MapPieces(Upper, line) \in HeaderLines
        THEN [st EXCEPT !.section = Str(RemoveColons(Lower(line[1])))]
        ELSE IF (StartsWith(line, <<"-", " ">>) \/ StartsWith(line, <<">", " ">>))
                /\ st.section # NoneVal
        THEN IF updated = NoneVal
             THEN [st EXCEPT !.raised = TRUE]
             ELSE [st EXCEPT !.result = updated]
        ELSE st

\* lines 171-175: return result, or the empty result after an exception
ParseResult(st) == IF st.raised THEN EmptyResult ELSE st.result

RECURSIVE ParseFrom(_, _)
ParseFrom(st, lines) ==
    IF lines = <<>> THEN st ELSE ParseFrom(ParseLine(st, Head(lines)), Tail(lines))

\* lines 151-175
ParseTopics(lines) == ParseResult(ParseFrom(ParseStart, lines))

(***************************************************************************)
(* The reference parser of claim C5, run on the same lines.  A line is     *)
(* read as the parser reads it, without the white space around it.         *)
(***************************************************************************)
RefStart == [result |-> EmptyResult, active |-> "none"]

RefCategory(line) ==
    IF Len(line) # 1 THEN "none"
    ELSE CASE Lower(line[1]) = "concerns:" -> "concerns"
           [] Lower(line[1]) = "wins:" -> "wins"
           [] Lower(line[1]) = "opportunities:" -> "opportunities"
           [] OTHER -> "none"

RefLine(st, rawLine) ==
    LET line == Strip(rawLine)
    IN  IF RefCategory(line) # "none"
        THEN [st EXCEPT !.active = RefCategory(line)]
        ELSE IF st.active # "none" /\ StartsWith(line, <<"-", " ">>)
        THEN [st EXCEPT !.result[st.active] = Append(@, Strip(From2(line)))]
        ELSE IF st.active # "none" /\ StartsWith(line, <<">", " ">>)
        THEN [st EXCEPT !.result.quotes[st.active] = Append(@, Strip(From2(line)))]
        ELSE st

ParsePending == [kind |-> "pending"]

ParseInit ==
    /\ pst = ParseStart
    /\ refst = RefStart
    /\ plen = 0
    /\ pout = ParsePending

\* one more line of the response goes through the loop body
ParseStep ==
    /\ pout = ParsePending
    /\ plen < MaxRespLines
    /\ \E line \in ResponseLines :
        /\ pst' = ParseLine(pst, line)
        /\ refst' = RefLine(refst, line)
    /\ plen' = plen + 1
    /\ pout' = pout
    /\ UNCHANGED otherThanParse

\* the response ends and _parse_topics returns
ParseReturn ==
    /\ pout = ParsePending
    /\ pout' = [kind |-> "returned", value |-> ParseResult(pst)]
    /\ UNCHANGED <<pst, refst, plen>>
    /\ UNCHANGED otherThanParse

(***************************************************************************)
(* TopicExtractor.extract_topics.  The documents are numbered in the       *)
(* order of the dict; a summary or a synthesis is a text the code only     *)
(* passes on, known by where it came from and by its token count.          *)
(***************************************************************************)
\* line 15: self.max_tokens = 6000
MaxTokens == 6000

\* line 16: self.batch_size = 10
BatchSize == 10

ExtractDocMaps ==
    {[i \in 1..n |-> IF i \in E THEN "" ELSE "text"] :
        n \in 0..MaxExtractDocs, E \in {{}, {1}, 1..MaxExtractDocs}}

\* the documents whose _initial_summary comes back empty (an empty reply,
\* or an exception, which _initial_summary turns into "")
EmptySummaryPatterns(n) == {{}, {1} \cap (1..n), {n} \cap (1..n), 1..n}

\* _batch_synthesis: the reply with its token count, or "" after an
\* exception; _count_tokens may itself raise (the tokenizer refuses a
\* text that holds a special token)
SynthesisOutcomes ==
    {[text |-> "synthesis", tokens |-> t, countRaises |-> FALSE] : t \in {1, MaxTokens, MaxTokens + 1}}
    \cup {[text |-> "", tokens |-> 0, countRaises |-> FALSE],
          [text |-> "special", tokens |-> 0, countRaises |-> TRUE]}

ExtractLines == {<<"CONCERNS:">>, <<"W{U+0131}NS:">>, <<"-", " ", "a">>, <<">", " ", "a">>, <<"a">>}

\* response.content of the categorization request, split at the line ends
ExtractReplies == SeqsUpTo(ExtractLines, MaxRespLines)

\* an except handler that hands back an empty dict
ExceptResult_EmptyDict == EmptyDict

\* line 134: return self._get_empty_result()
ExceptResult == EmptyResult

ExtractPending == [kind |-> "pending"]

ExtractInit ==
    /\ xpc = "summaries"
    /\ xdocs \in ExtractDocMaps
    /\ xsummaries = <<>>
    /\ xbatch = 0
    /\ xsyn = <<>>
    /\ xfinal = <<>>
    /\ xsent = NoneVal
    /\ xout = ExtractPending

\* lines 81-86: one summary per document, the empty ones left out
InitialSummaries ==
    /\ xpc = "summaries"
    /\ \E empty \in EmptySummaryPatterns(Len(xdocs)) :
        xsummaries' = SelectSeq([i \in 1..Len(xdocs) |-> i], LAMBDA i : i \notin empty)
    /\ xpc' = "batches"
    /\ UNCHANGED <<xdocs, xbatch, xsyn, xfinal, xsent, xout>>
    /\ UNCHANGED otherThanExtract

\* doc_items[i:i + self.batch_size]
BatchItems(items, i) ==
    SubSeq(items, i + 1, IF i + BatchSize < Len(items) THEN i + BatchSize ELSE Len(items))

\* a synthesis at exactly the ceiling is dropped too
FitsBudget_Below(tokens) == tokens < MaxTokens

\* line 101: if tokens <= self.max_tokens
FitsBudget(tokens) == tokens <= MaxTokens

\* lines 92-103: one batch is synthesized, counted and kept if it fits;
\* xsyn records every synthesis that was made
SynthesizeBatch ==
    /\ xpc = "batches"
    /\ xbatch < Len(xsummaries)
    /\ \E syn \in SynthesisOutcomes :
        /\ xsyn' = Append(xsyn, [batch |-> BatchItems(xsummaries, xbatch), text |-> syn.text,
                                 tokens |-> syn.tokens, countRaises |-> syn.countRaises])
        /\ IF syn.countRaises
           THEN /\ xpc' = "done"
                /\ xout' = [kind |-> "returned", value |-> ExceptResult, raised |-> TRUE]
                /\ UNCHANGED <<xbatch, xfinal>>
           ELSE /\ xfinal' = IF FitsBudget(syn.tokens)
                             THEN Append(xfinal, [batch |-> BatchItems(xsummaries, xbatch),
                                                  text |-> syn.text, tokens |-> syn.tokens])
                             ELSE xfinal
                /\ xbatch' = xbatch + BatchSize
                /\ UNCHANGED <<xpc, xout>>
    /\ UNCHANGED <<xdocs, xsummaries, xsent>>
    /\ UNCHANGED otherThanExtract

\* line 106: "\n\n".join(final_summaries), a string known by its parts
Joined(parts) == [type |-> "str", parts |-> parts]

\* lines 105-134: the kept syntheses are joined and sent, the reply parsed
Categorize ==
    /\ xpc = "batches"
    /\ xbatch >= Len(xsummaries)
    /\ xsent' = Joined(xfinal)
    /\ \/ xout' = [kind |-> "returned", value |-> ExceptResult, raised |-> TRUE]
       \/ \E reply \in ExtractReplies :
            xout' = [kind |-> "returned", value |-> ParseTopics(reply), raised |-> FALSE]
    /\ xpc' = "done"
    /\ UNCHANGED <<xdocs, xsummaries, xbatch, xsyn, xfinal>>
    /\ UNCHANGED otherThanExtract

(***************************************************************************)
(* EvidenceCollector._score_evidence.  A chunk's content is known by its   *)
(* number of words and by the lower-cased words found in it; a topic by    *)
(* its lower-cased keywords.  Scores are counted in tenths, a final score  *)
(* in twentieths, so that the halving of line 97 stays exact.              *)
(***************************************************************************)
\* line 62 written as an assignment: score = 0.2
AddKeywordScore_Assign(score) == 2

\* line 62: score += 0.2
AddKeywordScore(score) == score + 2

\* lines 48-64
ScoreEvidence(ev, topicKeywords) ==
    LET s1 == IF ev.metadata.is_quote THEN 3 ELSE 0
        s2 == s1 + (IF ev.metadata.has_numbers THEN 3 ELSE 0)
        s3 == s2 + (IF ev.content.nwords >= 10 THEN 2 ELSE 0)
    IN  IF \E k \in topicKeywords : k \in ev.content.found THEN AddKeywordScore(s3) ELSE s3

\* line 97: final_score = (similarity_score + relevance_score) / 2, in twentieths
FinalScore(similarity, relevance) == similarity + relevance

(***************************************************************************)
(* EvidenceCollector.collect_evidence.  The index holds ecount chunks;     *)
(* chunk i is a fixed text whose features follow from i.                   *)
(***************************************************************************)
\* line 84: k=10
SearchK == 10

\* line 102: scored_evidence[:5]
TopN == 5

TopicKeywords(topic) == IF topic = "t1" THEN {"k1"} ELSE {"k2"}

\* lines 27-39: a chunk with its metadata
Chunk(i) ==
    [content |-> [id |-> i,
                  nwords |-> IF i > 4 THEN 12 ELSE 5,
                  found |-> IF i % 2 = 1 THEN {"k1"} ELSE {"k2"}],
     metadata |-> [source |-> (i + 1) \div 2,
                   chunk_id |-> i % 2,
                   is_quote |-> i % 2 = 0,
                   has_numbers |-> i % 3 = 0]]

Min(a, b) == IF a < b THEN a ELSE b

\* what similarity_search_with_score may hand back for a store of n chunks:
\* the Min(k, n) nearest chunks, nearest first, with their distances (tenths)
SearchOrders(n) == {[i \in 1..Min(SearchK, n) |-> i], [i \in 1..Min(SearchK, n) |-> n + 1 - i]}

DistanceProfiles(m) == {[i \in 1..m |-> 3], [i \in 1..m |-> i - 1], [i \in 1..m |-> IF 2 * i <= m THEN 0 ELSE 10]}

SearchResults(n) ==
    {[i \in DOMAIN order |-> [chunk |-> order[i], distance |-> dist[i]]] :
        order \in SearchOrders(n), dist \in DistanceProfiles(Min(SearchK, n))}

\* lines 89-98: every result becomes an evidence dict with its final score
Scored(results, topic) ==
    [i \in DOMAIN results |->
        LET ev == [content |-> Chunk(results[i].chunk).content,
                   metadata |-> Chunk(results[i].chunk).metadata,
                   similarity |-> results[i].distance]
        IN  [evidence |-> ev,
             score |-> FinalScore(results[i].distance, ScoreEvidence(ev, TopicKeywords(topic)))]]

\* list.sort(key=..., reverse=True) is stable: equal scores keep their order
RECURSIVE InsertDesc(_, _)
InsertDesc(x, sorted) ==
    IF sorted = <<>> THEN <<x>>
    ELSE IF Head(sorted).score >= x.score
         THEN <<Head(sorted)>> \o InsertDesc(x, Tail(sorted))
         ELSE <<x>> \o sorted

RECURSIVE SortDesc(_)
SortDesc(seq) ==
    IF seq = <<>> THEN <<>>
    ELSE InsertDesc(seq[Len(seq)], SortDesc(SubSeq(seq, 1, Len(seq) - 1)))

\* lines 101-102
BestEvidence(scored) ==
    LET sorted == SortDesc(scored)
    IN  [i \in 1..Min(TopN, Len(sorted)) |-> sorted[i].evidence]

\* an element of response.content.strip().split(','): an integer or not
IntElem(n) == [isInt |-> TRUE, val |-> n]

NotInt == [isInt |-> FALSE, val |-> 0]

ReplyElems == {IntElem(n) : n \in {-6, -1, 0, 5}} \cup {NotInt}

\* split(',') gives at least one element; "" gives the one element ''
ValidationReplies ==
    (SeqsUpTo(ReplyElems, MaxReplyLen) \ {<<>>})
    \cup {[i \in 1..6 |-> IntElem(0)], [i \in 1..5 |-> IntElem(i - 1)]}

\* best_evidence[i] with Python's indexing: -len..-1 count from the end
PyIndexOk(list, i) == -Len(list) <= i /\ i < Len(list)

PyIndex(list, i) == IF i >= 0 THEN list[i + 1] ELSE list[Len(list) + i + 1]

\* an except branch that keeps nothing
Fallback_Nothing(best) == <<>>

\* lines 119-120: except: validated_evidence = best_evidence
Fallback(best) == best

\* lines 116-120
Validated(best, reply) ==
    LET kept == SelectSeq(reply, LAMBDA e : e.val < Len(best))
    IN  IF \E j \in DOMAIN reply : ~reply[j].isInt
        THEN Fallback(best)
        ELSE IF \E j \in DOMAIN kept : ~PyIndexOk(best, kept[j].val)
             THEN Fallback(best)
             ELSE [j \in DOMAIN kept |-> PyIndex(best, kept[j].val)]

\* lines 122-126
EvidenceItems(validated) ==
    [j \in DOMAIN validated |->
        [text |-> validated[j].content.id,
         source |-> validated[j].metadata.source,
         relevance |-> IF validated[j].metadata.is_quote
                       THEN "direct_quote" ELSE "supporting_evidence"]]

\* lines 76-80: the topics of every category but 'quotes', in dict order
RECURSIVE Flatten(_)
Flatten(seqs) == IF seqs = <<>> THEN <<>> ELSE Head(seqs) \o Flatten(Tail(seqs))

Worklist(t) ==
    Flatten([i \in DOMAIN CategoryKeys |->
                [j \in DOMAIN t[CategoryKeys[i]] |->
                    [category |-> CategoryKeys[i], topic |-> t[CategoryKeys[i]][j]]]])

EvidenceTopicSets ==
    {[EmptyResult EXCEPT !.concerns = <<"t1">>, !.wins = <<"t2">>],
     [EmptyResult EXCEPT !.concerns = <<"t1", "t2">>, !.quotes.concerns = <<"q1">>],
     [EmptyResult EXCEPT !.wins = <<"t1">>, !.opportunities = <<"t1">>]}

EvidencePending == [kind |-> "pending"]

EvidenceInit ==
    /\ epc = "index"
    /\ ecount \in {0, 2, NChunks}
    /\ ework \in {Worklist(t) : t \in EvidenceTopicSets}
    /\ eidx = 1
    /\ ecands = <<>>
    /\ ebest = <<>>
    /\ ereply = <<>>
    /\ eby = EmptyDict
    /\ eret = EvidencePending

\* lines 132-134: any exception ends the collection with {}
EvidenceAbort ==
    /\ epc' = "done"
    /\ eret' = [kind |-> "returned", value |-> EmptyDict, raised |-> TRUE]

\* lines 70-73: chunk the documents and build the index; the embedding
\* call may raise, and an index of no chunk cannot be built
BuildIndex ==
    /\ epc = "index"
    /\ \E ok \in BOOLEAN :
        IF ok /\ ecount > 0
        THEN epc' = "search" /\ eret' = eret
        ELSE EvidenceAbort
    /\ UNCHANGED <<ecount, ework, eidx, ecands, ebest, ereply, eby>>
    /\ UNCHANGED otherThanEvidence

\* lines 82-102: search, score and rank the candidates of the next topic
SearchAndRank ==
    /\ epc = "search"
    /\ eidx <= Len(ework)
    /\ \/ /\ EvidenceAbort
          /\ UNCHANGED <<ecands, ebest>>
       \/ \E results \in SearchResults(ecount) :
            /\ ecands' = Scored(results, ework[eidx].topic)
            /\ ebest' = BestEvidence(Scored(results, ework[eidx].topic))
            /\ epc' = "validate"
            /\ eret' = eret
    /\ UNCHANGED <<ecount, ework, eidx, ereply, eby>>
    /\ UNCHANGED otherThanEvidence

\* lines 104-128: ask the model which candidates to keep and store them
Validate ==
    /\ epc = "validate"
    /\ \/ /\ EvidenceAbort
          /\ UNCHANGED <<eidx, ereply, eby>>
       \/ \E reply \in ValidationReplies :
            /\ ereply' = reply
            /\ eby' = [t \in DOMAIN eby \cup {ework[eidx].topic} |->
                          IF t = ework[eidx].topic
                          THEN EvidenceItems(Validated(ebest, reply))
                          ELSE eby[t]]
            /\ eidx' = eidx + 1
            /\ epc' = "search"
            /\ eret' = eret
    /\ UNCHANGED <<ecount, ework, ecands, ebest>>
    /\ UNCHANGED otherThanEvidence

\* line 130: return evidence_by_topic
ReturnEvidence ==
    /\ epc = "search"
    /\ eidx > Len(ework)
    /\ epc' = "done"
    /\ eret' = [kind |-> "returned", value |-> eby, raised |-> FALSE]
    /\ UNCHANGED <<ecount, ework, eidx, ecands, ebest, ereply, eby>>
    /\ UNCHANGED otherThanEvidence

(***************************************************************************)
(* _score_evidence applied to two chunks at one similarity.                *)
(***************************************************************************)
ScoreChunks ==
    {[content |-> [id |-> 0, nwords |-> n, found |-> f],
      metadata |-> [source |-> 1, chunk_id |-> 0, is_quote |-> q, has_numbers |-> d]] :
        n \in {9, 10}, f \in {{}, {"k1"}, {"k2"}}, q \in BOOLEAN, d \in BOOLEAN}

Similarities == {0, 3, 17}

ScoreInit ==
    /\ sA \in ScoreChunks
    /\ sB \in ScoreChunks
    /\ sTopic \in {{"k1"}, {"k1", "k2"}}
    /\ sSim \in Similarities
    /\ sScores = <<>>

\* lines 96-97 for both chunks
ScoreBoth ==
    /\ sScores = <<>>
    /\ sScores' = <<FinalScore(sSim, ScoreEvidence(sA, sTopic)),
                    FinalScore(sSim, ScoreEvidence(sB, sTopic))>>
    /\ UNCHANGED <<sA, sB, sTopic, sSim>>
    /\ UNCHANGED otherThanScore

(***************************************************************************)
(* StoryGenerator.generate_story: the evidence of each topic is split by   *)
(* its relevance, the model is asked for the story, and any exception      *)
(* makes the result None.                                                  *)
(***************************************************************************)
LlmThrows == [ok |-> FALSE, words |-> <<>>]

StoryReplies == {[ok |-> TRUE, words |-> <<"Headline", "text">>]}

StoryLlmOutcomes == StoryReplies \cup {LlmThrows}

\* a partition that puts every item under support
EvidenceByTopic_AllAsSupport(topicList, ev) ==
    [t \in Range(topicList) |-> [quotes |-> <<>>, support |-> GetOrEmpty(ev, t)]]

\* lines 18-29: evidence_by_topic
EvidenceByTopic(topicList, ev) ==
    [t \in Range(topicList) |->
        [quotes |-> SelectSeq(GetOrEmpty(ev, t), LAMBDA e : e.relevance = "direct_quote"),
         support |-> SelectSeq(GetOrEmpty(ev, t), LAMBDA e : e.relevance = "supporting_evidence")]]

generate_story(category, topicList, ev, llm) ==
    IF ~llm.ok
    THEN NoneVal
    ELSE [type |-> "dict",
          category |-> category,
          topics |-> topicList,
          story |-> llm.words,
          evidence_used |-> EvidenceByTopic(topicList, ev),
          word_count |-> Len(llm.words)]

\* Python truth value of what generate_story returns: None is false, the
\* story dict has five keys and is true.
Truthy(v) == v.type # "None"

(***************************************************************************)
(* What the stages hand to the orchestrator.                               *)
(***************************************************************************)
TopicNames == {"t1", "t2"}

Contents == {"", "text"}

DocIds == 1..MaxDocs

DocumentMaps == UNION {[S -> Contents] : S \in SUBSET DocIds}

TopicLists == SeqsUpTo(TopicNames, MaxTopicsPerCat)

QuoteLists == {<<>>, <<"q1">>}

\* extract_topics returns what _parse_topics built, or the empty result
TopicSets ==
    {[concerns |-> c, wins |-> w, opportunities |-> o,
      quotes |-> [concerns |-> q, wins |-> <<>>, opportunities |-> <<>>]] :
        c \in TopicLists, w \in TopicLists, o \in TopicLists, q \in QuoteLists}

QuoteItem == [text |-> "chunk1", source |-> 1, relevance |-> "direct_quote"]

SupportItem == [text |-> "chunk2", source |-> 1, relevance |-> "supporting_evidence"]

AllTopics(t) == UNION {Range(t[k]) : k \in CategorySet}

\* collect_evidence returns an entry for every topic, or {} after an exception
EvidenceSetsFor(t) ==
    {EmptyDict} \cup
    {[x \in AllTopics(t) |-> items] : items \in {<<>>, <<QuoteItem, SupportItem>>}}

(***************************************************************************)
(* AutoDocumentProcessor.process_documents                                 *)
(***************************************************************************)
Running == [kind |-> "running"]

Raised(excType, msg) == [kind |-> "raise", exc |-> [type |-> excType, msg |-> msg]]

\* line 72: the method returns the list of stories itself
Returned(storyList) == [kind |-> "return", type |-> "list", value |-> storyList]

\* a check of the dict itself, which always has its keys
NoTopicsExtracted_DictOnly(t) == DOMAIN t = {}

\* line 43: not any(topics.get(key) for key in ['concerns', 'wins', 'opportunities'])
NoTopicsExtracted(t) == ~\E i \in DOMAIN CategoryKeys : t[CategoryKeys[i]] # <<>>

\* the categories in sorted order
StoryCategories_Sorted == <<"concerns", "opportunities", "wins">>

\* line 53: categories = ['concerns', 'wins', 'opportunities']
StoryCategories == <<"concerns", "wins", "opportunities">>

\* lines 63-64: if story: stories.append(story)
AppendStory(storyList, story) == IF Truthy(story) THEN Append(storyList, story) ELSE storyList

NotCalled == [c \in CategorySet |-> "not_called"]

OrchInit ==
    /\ pc = "Init"
    /\ documents \in DocumentMaps
    /\ topics = EmptyResult
    /\ evidence = EmptyDict
    /\ stories = <<>>
    /\ catIdx = 1
    /\ ret = Running
    /\ calls = <<>>
    /\ genResult = NotCalled

\* lines 74-76: the handler logs the exception and raises it again
Fail(excType, msg) ==
    /\ pc' = "Failed"
    /\ ret' = Raised(excType, msg)

\* lines 35-44: save the input, extract the topics, save them, check them
ExtractTopics ==
    /\ pc = "Init"
    /\ \E ioInput \in BOOLEAN, ioTopics \in BOOLEAN, t \in TopicSets :
        IF ~ioInput
        THEN /\ Fail("OSError", "01_input_documents")
             /\ UNCHANGED <<topics, calls>>
        ELSE /\ calls' = Append(calls, "extract_topics")
             /\ topics' = t
             /\ IF ~ioTopics
                THEN Fail("OSError", "02_topic_extraction")
                ELSE IF NoTopicsExtracted(t)
                     THEN Fail("ValueError", "No topics were extracted from documents")
                     ELSE pc' = "TopicsExtracted" /\ ret' = ret
    /\ UNCHANGED <<documents, evidence, stories, catIdx, genResult>>
    /\ UNCHANGED otherThanOrch

\* lines 46-53: collect the evidence, save it, start the story loop
CollectEvidence ==
    /\ pc = "TopicsExtracted"
    /\ \E ioEvidence \in BOOLEAN, ev \in EvidenceSetsFor(topics) :
        /\ calls' = Append(calls, "collect_evidence")
        /\ evidence' = ev
        /\ IF ~ioEvidence
           THEN Fail("OSError", "03_evidence_collection")
           ELSE pc' = "EvidenceCollected" /\ ret' = ret
    /\ UNCHANGED <<documents, topics, stories, catIdx, genResult>>
    /\ UNCHANGED otherThanOrch

\* lines 55-64: one iteration of the loop over the categories
GenerateStory ==
    /\ pc = "EvidenceCollected"
    /\ catIdx <= Len(StoryCategories)
    /\ LET category == StoryCategories[catIdx]
       IN IF topics[category] # <<>>
          THEN \E llm \in StoryLlmOutcomes :
                LET story == generate_story(category, topics[category], evidence, llm)
                IN /\ calls' = Append(calls, "generate_story")
                   /\ genResult' = [genResult EXCEPT ![category] =
                                        IF llm.ok THEN "replied" ELSE "threw"]
                   /\ stories' = AppendStory(stories, story)
          ELSE UNCHANGED <<calls, genResult, stories>>
    /\ catIdx' = catIdx + 1
    /\ pc' = IF catIdx = Len(StoryCategories) THEN "StoriesGenerated" ELSE pc
    /\ UNCHANGED <<documents, topics, evidence, ret>>
    /\ UNCHANGED otherThanOrch

\* lines 66-72: save the stories (save_readable_output swallows its own
\* exceptions) and return them
Finish ==
    /\ pc = "StoriesGenerated"
    /\ \E ioStories \in BOOLEAN :
        IF ~ioStories
        THEN Fail("OSError", "04_final_stories")
        ELSE pc' = "Done" /\ ret' = Returned(stories)
    /\ UNCHANGED <<documents, topics, evidence, stories, catIdx, calls, genResult>>
    /\ UNCHANGED otherThanOrch

(***************************************************************************)
(* api/index.py: POST /process-documents/.  Every exception raised in the  *)
(* body, an HTTPException included, reaches the handler's own except,      *)
(* which answers 500 with the text of the exception.                       *)
(***************************************************************************)
FileNames == {[stem |-> st, suffix |-> su] : st \in {"a", "b"}, su \in {".txt", ".pdf", ".TXT"}}

\* line 55: file.filename.endswith('.txt')
EndsWithTxt(name) == name.suffix = ".txt"

HttpException(status, detail) == [type |-> "HTTPException", status |-> status, detail |-> detail]

\* lines 72-74: except Exception as e: raise HTTPException(500, detail=str(e))
HandlerResponse(e) == [status |-> 500, detail |-> <<"str", e>>]

\* what the call of line 64 may do: the core returns its list of stories,
\* or raises (no topics extracted, or a failed write)
CoreOutcomes ==
    {[kind |-> "return", type |-> "list"],
     [kind |-> "raise", exc |-> [type |-> "ValueError", msg |-> "No topics were extracted from documents"]],
     [kind |-> "raise", exc |-> [type |-> "OSError", msg |-> "write failed"]]}

ApiInit ==
    /\ apc = "key"
    /\ akey \in BOOLEAN
    /\ afiles \in SeqsUpTo(FileNames, MaxUploads)
    /\ anext = 1
    /\ adocs = EmptyDict
    /\ acore = 0
    /\ aresp = NoneVal

\* lines 49-51: the API key must be configured
CheckKey ==
    /\ apc = "key"
    /\ IF akey
       THEN apc' = "files" /\ aresp' = aresp
       ELSE /\ apc' = "responded"
            /\ aresp' = HandlerResponse(HttpException(500, "OpenAI API key not configured"))
    /\ UNCHANGED <<akey, afiles, anext, adocs, acore>>
    /\ UNCHANGED otherThanApi

\* lines 54-57: one upload is read if its name ends in .txt; the decoding
\* of its bytes may raise
ReadUpload ==
    /\ apc = "files"
    /\ anext <= Len(afiles)
    /\ IF EndsWithTxt(afiles[anext])
       THEN \E decodes \in BOOLEAN :
            IF decodes
            THEN /\ adocs' = [n \in DOMAIN adocs \cup {afiles[anext]} |-> "text"]
                 /\ anext' = anext + 1
                 /\ UNCHANGED <<apc, aresp>>
            ELSE /\ apc' = "responded"
                 /\ aresp' = HandlerResponse([type |-> "UnicodeDecodeError"])
                 /\ UNCHANGED <<adocs, anext>>
       ELSE /\ anext' = anext + 1
            /\ UNCHANGED <<adocs, apc, aresp>>
    /\ UNCHANGED <<akey, afiles, acore>>
    /\ UNCHANGED otherThanApi

\* lines 59-60: no document left
RejectEmpty ==
    /\ apc = "files"
    /\ anext > Len(afiles)
    /\ adocs = EmptyDict
    /\ apc' = "responded"
    /\ aresp' = HandlerResponse(HttpException(400, "No valid text files uploaded"))
    /\ UNCHANGED <<akey, afiles, anext, adocs, acore>>
    /\ UNCHANGED otherThanApi

\* lines 62-74: the core is run; what it raises goes to the handler, and
\* the list it returns cannot be awaited (TypeError), which goes there too
CallCore ==
    /\ apc = "files"
    /\ anext > Len(afiles)
    /\ adocs # EmptyDict
    /\ acore' = acore + 1
    /\ \E out \in CoreOutcomes :
        aresp' = IF out.kind = "raise"
                 THEN HandlerResponse(out.exc)
                 ELSE HandlerResponse([type |-> "TypeError"])
    /\ apc' = "responded"
    /\ UNCHANGED <<akey, afiles, anext, adocs>>
    /\ UNCHANGED otherThanApi

(***************************************************************************)
(* Specifications.  Each one runs one component; the variables of the      *)
(* other components stay at their idle values.                             *)
(***************************************************************************)
OrchIdle ==
    /\ pc = "Idle"
    /\ documents = EmptyDict
    /\ topics = EmptyResult
    /\ evidence = EmptyDict
    /\ stories = <<>>
    /\ catIdx = 1
    /\ ret = Running
    /\ calls = <<>>
    /\ genResult = NotCalled

ParseIdle ==
    /\ pst = ParseStart
    /\ refst = RefStart
    /\ plen = 0
    /\ pout = [kind |-> "idle"]

ExtractIdle ==
    /\ xpc = "idle"
    /\ xdocs = <<>>
    /\ xsummaries = <<>>
    /\ xbatch = 0
    /\ xsyn = <<>>
    /\ xfinal = <<>>
    /\ xsent = NoneVal
    /\ xout = [kind |-> "idle"]

EvidenceIdle ==
    /\ epc = "idle"
    /\ ecount = 0
    /\ ework = <<>>
    /\ eidx = 1
    /\ ecands = <<>>
    /\ ebest = <<>>
    /\ ereply = <<>>
    /\ eby = EmptyDict
    /\ eret = [kind |-> "idle"]

ScoreIdle ==
    /\ sA = NoneVal
    /\ sB = NoneVal
    /\ sTopic = {}
    /\ sSim = 0
    /\ sScores = <<>>

ApiIdle ==
    /\ apc = "idle"
    /\ akey = FALSE
    /\ afiles = <<>>
    /\ anext = 1
    /\ adocs = EmptyDict
    /\ acore = 0
    /\ aresp = NoneVal

\* process_documents
Init == OrchInit /\ ParseIdle /\ ExtractIdle /\ EvidenceIdle /\ ScoreIdle /\ ApiIdle

Next == ExtractTopics \/ CollectEvidence \/ GenerateStory \/ Finish

Spec == Init /\ [][Next]_vars

\* _parse_topics
InitParse == ParseInit /\ OrchIdle /\ ExtractIdle /\ EvidenceIdle /\ ScoreIdle /\ ApiIdle

NextParse == ParseStep \/ ParseReturn

SpecParse == InitParse /\ [][NextParse]_vars

\* extract_topics
InitExtract == ExtractInit /\ OrchIdle /\ ParseIdle /\ EvidenceIdle /\ ScoreIdle /\ ApiIdle

NextExtract == InitialSummaries \/ SynthesizeBatch \/ Categorize

SpecExtract == InitExtract /\ [][NextExtract]_vars

\* collect_evidence
InitEvidence == EvidenceInit /\ OrchIdle /\ ParseIdle /\ ExtractIdle /\ ScoreIdle /\ ApiIdle

NextEvidence == BuildIndex \/ SearchAndRank \/ Validate \/ ReturnEvidence

SpecEvidence == InitEvidence /\ [][NextEvidence]_vars

\* _score_evidence
InitScore == ScoreInit /\ OrchIdle /\ ParseIdle /\ ExtractIdle /\ EvidenceIdle /\ ApiIdle

NextScore == ScoreBoth

SpecScore == InitScore /\ [][NextScore]_vars

\* POST /process-documents/
InitApi == ApiInit /\ OrchIdle /\ ParseIdle /\ ExtractIdle /\ EvidenceIdle /\ ScoreIdle

NextApi == CheckKey \/ ReadUpload \/ RejectEmpty \/ CallCore

SpecApi == InitApi /\ [][NextApi]_vars

(***************************************************************************)
(* Claims about process_documents, checked under Spec.  A failed write of  *)
(* an intermediate file (OSError) is persistence, which the specification  *)
(* leaves to its caller: the claims are read as claims about the runs in   *)
(* which every write succeeds.                                             *)
(***************************************************************************)
Ended == pc \in {"Done", "Failed"}

WriteFailed == ret.kind = "raise" /\ ret.exc.type = "OSError"

HasSomeTopic(t) == \E c \in {"concerns", "wins", "opportunities"} : Len(t[c]) >= 1

IsProcessingResult(r) ==
    /\ r.kind = "return"
    /\ r.type = "dict"
    /\ r.value.status \in {"success", "error"}

\* C1: process_documents never lets an exception reach its caller: every
\* run that ends hands back a ProcessingResult with status success or
\* error, and a run that failed hands back status=error with the
\* exception's message and no stories.
C1_NeverRaises ==
    (Ended /\ ~WriteFailed) =>
        /\ ret.kind # "raise"
        /\ IsProcessingResult(ret)
        /\ pc = "Failed" =>
            /\ ret.value.status = "error"
            /\ ret.value.stories = <<>>

\* C2: the stages are invoked in the order extract_topics,
\* collect_evidence, generate_story; collect_evidence only after
\* extract_topics returned a TopicSet with a topic in some category,
\* generate_story only after collect_evidence returned, and a TopicSet
\* without any topic fails the run with neither of the two invoked.
C2_StageOrder ==
    /\ \A i \in DOMAIN calls :
        /\ calls[i] = "extract_topics" => i = 1
        /\ calls[i] = "collect_evidence" =>
            i = 2 /\ calls[1] = "extract_topics" /\ HasSomeTopic(topics)
        /\ calls[i] = "generate_story" =>
            i >= 3 /\ calls[2] = "collect_evidence" /\ pc # "TopicsExtracted"
    /\ (Len(calls) >= 1 /\ ~HasSomeTopic(topics)) =>
        pc = "Failed" /\ calls = <<"extract_topics">>
    /\ pc \in {"StoriesGenerated", "Done"} =>
        Len(calls) >= 2 /\ calls[1] = "extract_topics" /\ calls[2] = "collect_evidence"

C2_FailedWithoutEvidence ==
    /\ pc = "Failed"
    /\ ret.kind = "raise" /\ ret.exc.type = "ValueError"
    /\ calls = <<"extract_topics">>
    /\ topics.quotes.concerns # <<>>

\* C3: when extraction yields a topic the run ends with a ProcessingResult
\* of status=success, also with no story at all, whose metadata gives
\* documentCount = number of input documents and generatedStoryCount =
\* number of stories.
C3_SuccessWithCounts ==
    (Ended /\ ~WriteFailed /\ Len(calls) >= 1 /\ HasSomeTopic(topics)) =>
        /\ IsProcessingResult(ret)
        /\ ret.value.status = "success"
        /\ ret.value.metadata.documentCount = Cardinality(DOMAIN documents)
        /\ ret.value.metadata.generatedStoryCount = Len(ret.value.stories)

\* C4: the final list holds exactly one story for each category that has
\* a topic and whose model call replied, none for any other, in the order
\* concerns, wins, opportunities; a call that threw removes its own
\* category only.
ExpectedCategories ==
    SelectSeq(<<"concerns", "wins", "opportunities">>,
              LAMBDA c : Len(topics[c]) >= 1 /\ genResult[c] = "replied")

C4_StoriesPerCategory ==
    pc \in {"StoriesGenerated", "Done"} =>
        /\ Len(stories) = Len(ExpectedCategories)
        /\ \A i \in DOMAIN stories :
            /\ stories[i].type = "dict"
            /\ stories[i].category = ExpectedCategories[i]
            /\ stories[i].topics = topics[stories[i].category]
        /\ \A c \in {"concerns", "wins", "opportunities"} :
            genResult[c] = "not_called" <=> topics[c] = <<>>
        /\ pc = "Done" => ret.kind = "return" /\ ret.value = stories

C4_ThrowRemovesOneCategory ==
    /\ pc = "Done"
    /\ genResult.concerns = "threw"
    /\ genResult.wins = "replied"
    /\ genResult.opportunities = "replied"
    /\ Len(stories) = 2

(***************************************************************************)
(* Claims about generate_story, checked under Spec on the stories of a run.*)
(***************************************************************************)
ItemsOf(t) == IF t \in DOMAIN evidence THEN evidence[t] ELSE <<>>

OfKind(items, kind) == SelectSeq(items, LAMBDA e : e.relevance = kind)

\* C14: every story has the topics passed for its category and, for each
\* of them, an evidence_used entry in which every evidence item of the
\* topic is in exactly one of quotes (direct_quote) and support
\* (supporting_evidence); a topic without entry in the evidence, also when
\* the evidence is empty, has empty quotes and support, and the call that
\* replied still gives its story.
C14_EvidencePartition ==
    /\ \A i \in DOMAIN stories :
        /\ stories[i].topics = topics[stories[i].category]
        /\ DOMAIN stories[i].evidence_used = {topics[stories[i].category][j] :
                                                j \in DOMAIN topics[stories[i].category]}
        /\ \A t \in DOMAIN stories[i].evidence_used :
            /\ stories[i].evidence_used[t].quotes = OfKind(ItemsOf(t), "direct_quote")
            /\ stories[i].evidence_used[t].support = OfKind(ItemsOf(t), "supporting_evidence")
            /\ Len(stories[i].evidence_used[t].quotes) + Len(stories[i].evidence_used[t].support)
                = Len(ItemsOf(t))
            /\ \A k \in DOMAIN ItemsOf(t) :
                (ItemsOf(t)[k] \in Range(stories[i].evidence_used[t].quotes))
                    # (ItemsOf(t)[k] \in Range(stories[i].evidence_used[t].support))
            /\ t \notin DOMAIN evidence =>
                /\ stories[i].evidence_used[t].quotes = <<>>
                /\ stories[i].evidence_used[t].support = <<>>
    /\ \A c \in {"concerns", "wins", "opportunities"} :
        genResult[c] = "replied" => \E i \in DOMAIN stories : stories[i].category = c

C14_StoryWithSplitEvidence ==
    /\ pc = "Done"
    /\ Len(stories) = 2
    /\ \E t \in DOMAIN stories[1].evidence_used :
        /\ stories[1].evidence_used[t].quotes = <<QuoteItem>>
        /\ stories[1].evidence_used[t].support = <<SupportItem>>

(***************************************************************************)
(* Claims about _parse_topics, checked under SpecParse.                    *)
(***************************************************************************)
\* C5: for every sequence of response lines _parse_topics returns the
\* result of the reference: a header line (compared without case) makes
\* its category active, a "- " line under an active category appends its
\* trimmed remainder to the topics, a "> " line to the quotes, every other
\* line changes nothing, and the order of the lines is kept.
C5_ParseMatchesReference ==
    pout.kind = "returned" => pout.value = refst.result

(***************************************************************************)
(* Claims about extract_topics, checked under SpecExtract.                 *)
(***************************************************************************)
SomeDocumentNonEmpty == \E i \in DOMAIN xdocs : xdocs[i] # ""

ExtractReturned == xpc = "done" /\ xout.kind = "returned"

HasTopicSetKeys(v) ==
    /\ DOMAIN v = {"concerns", "wins", "opportunities", "quotes"}
    /\ DOMAIN v.quotes = {"concerns", "wins", "opportunities"}

KeptSyntheses == SelectSeq(xsyn, LAMBDA r : ~r.countRaises /\ r.tokens <= 6000)

\* C13: the text sent to the categorization request is made, in batch
\* order, of exactly the batch syntheses of at most 6000 tokens, each one
\* whole; there is one synthesis per batch of 10 summaries (no retry, no
\* new split), and a dropped synthesis neither ends the run nor removes
\* another batch: only a token count that raises ends it before the
\* request.
C13_DroppedWhole ==
    /\ xsent # NoneVal =>
        /\ Len(xsent.parts) = Len(KeptSyntheses)
        /\ \A i \in DOMAIN xsent.parts :
            /\ xsent.parts[i].batch = KeptSyntheses[i].batch
            /\ xsent.parts[i].text = KeptSyntheses[i].text
            /\ xsent.parts[i].tokens = KeptSyntheses[i].tokens
        /\ Len(xsyn) = (Len(xsummaries) + 9) \div 10
        /\ \A i \in DOMAIN xsyn :
            /\ ~xsyn[i].countRaises
            /\ xsyn[i].batch =
                SubSeq(xsummaries, 10 * (i - 1) + 1,
                       IF 10 * i < Len(xsummaries) THEN 10 * i ELSE Len(xsummaries))
    /\ (xpc = "done" /\ xsent = NoneVal) =>
        xsyn # <<>> /\ xsyn[Len(xsyn)].countRaises

C13_FirstBatchDropped ==
    /\ xsent # NoneVal
    /\ Len(xsyn) = 2
    /\ xsyn[1].tokens > 6000
    /\ xsyn[2].tokens = 6000
    /\ Len(xsent.parts) = 1
    /\ xsent.parts[1].batch = xsyn[2].batch

(***************************************************************************)
(* Claims about collect_evidence, checked under SpecEvidence.              *)
(***************************************************************************)
\* C7: every topic's entry of the EvidenceSet has at most 5 items.
C7_AtMostFive == \A t \in DOMAIN eby : Len(eby[t]) <= 5

Unparsable(reply) == \E j \in DOMAIN reply : ~reply[j].isInt

\* the topic whose reply is ereply has just been stored: the candidates
\* in ecands and ebest are still its own
JustValidated ==
    /\ eidx > 1
    /\ \/ epc = "search"
       \/ epc = "done" /\ eret.kind = "returned" /\ ~eret.raised

CandidateScore(ev) ==
    (CHOOSE c \in Range(ecands) : c.evidence.content.id = ev.content.id).score

\* ebest holds the min(5, n) best-scored candidates, best first
RankedTopFive ==
    /\ Len(ebest) = (IF Len(ecands) < 5 THEN Len(ecands) ELSE 5)
    /\ \A i \in DOMAIN ebest : \E c \in Range(ecands) : c.evidence = ebest[i]
    /\ \A i, j \in DOMAIN ebest :
        i < j => ebest[i] # ebest[j] /\ CandidateScore(ebest[i]) >= CandidateScore(ebest[j])
    /\ \A c \in Range(ecands) :
        c.evidence \notin Range(ebest) =>
            \A i \in DOMAIN ebest : CandidateScore(ebest[i]) >= c.score

\* C8: when the validation reply of a topic is no comma-separated list of
\* integers, the topic's evidence is the whole top-5 list of candidates
\* in ranked order, and the collection goes on with the next topic: it is
\* not aborted, and a collection that returns has an entry for every topic.
C8_FailOpen ==
    /\ (JustValidated /\ Unparsable(ereply)) =>
        /\ RankedTopFive
        /\ ework[eidx - 1].topic \in DOMAIN eby
        /\ \A j \in 1..Len(ebest) :
            /\ Len(eby[ework[eidx - 1].topic]) = Len(ebest)
            /\ eby[ework[eidx - 1].topic][j].text = ebest[j].content.id
            /\ eby[ework[eidx - 1].topic][j].source = ebest[j].metadata.source
        /\ Len(eby[ework[eidx - 1].topic]) > 0
        /\ epc = "search" => eret = EvidencePending
    /\ (epc = "done" /\ ~eret.raised) =>
        DOMAIN eret.value = {ework[i].topic : i \in DOMAIN ework}

C8_SecondTopicAfterBadReply ==
    /\ epc = "search"
    /\ eidx = 3
    /\ Len(ecands) = 6
    /\ Unparsable(ereply)
    /\ Len(eby[ework[1].topic]) = 5
    /\ Len(eby[ework[2].topic]) = 5
    /\ ework[1].topic # ework[2].topic

AllIntegers(reply) == \A j \in DOMAIN reply : reply[j].isInt

InValidRange(reply, n) == SelectSeq(reply, LAMBDA e : 0 <= e.val /\ e.val < n)

\* C11: when the validation reply is a list of integers, the evidence kept
\* for the topic is exactly the candidates at the indices of the reply
\* that lie in 0..n-1, in the order of the reply: an index below 0 or at
\* least n adds no item and does not bring all the candidates back.
C11_OnlyValidRange ==
    (JustValidated /\ AllIntegers(ereply)) =>
        eby[ework[eidx - 1].topic] =
            [j \in DOMAIN InValidRange(ereply, Len(ebest)) |->
                [text |-> ebest[InValidRange(ereply, Len(ebest))[j].val + 1].content.id,
                 source |-> ebest[InValidRange(ereply, Len(ebest))[j].val + 1].metadata.source,
                 relevance |-> IF ebest[InValidRange(ereply, Len(ebest))[j].val + 1].metadata.is_quote
                               THEN "direct_quote" ELSE "supporting_evidence"]]

Heuristic(c) == ScoreEvidence(c.evidence, TopicKeywords(ework[eidx].topic))

RankOf(ev) == CHOOSE i \in DOMAIN ebest : ebest[i] = ev

\* C12: of two candidates of one topic with the same heuristic score, the
\* one at the smaller distance is ranked no lower than the one at the
\* larger distance: the farther one is never in the top 5 while the nearer
\* one is dropped, nor ahead of it.
C12_NearerRankedFirst ==
    epc = "validate" =>
        \A a, b \in Range(ecands) :
            (Heuristic(a) = Heuristic(b)
                /\ a.evidence.similarity < b.evidence.similarity
                /\ b.evidence \in Range(ebest)) =>
                    /\ a.evidence \in Range(ebest)
                    /\ RankOf(a.evidence) < RankOf(b.evidence)

(***************************************************************************)
(* Claims about _score_evidence, checked under SpecScore.                  *)
(***************************************************************************)
Signals(chunk) ==
    {sig \in {"isQuote", "hasNumbers", "tenWords", "keyword"} :
        \/ sig = "isQuote" /\ chunk.metadata.is_quote
        \/ sig = "hasNumbers" /\ chunk.metadata.has_numbers
        \/ sig = "tenWords" /\ chunk.content.nwords >= 10
        \/ sig = "keyword" /\ chunk.content.found \cap sTopic # {}}

\* C9: at one similarity, a chunk with all four signals scores strictly
\* higher than a chunk with none, and a chunk with one signal more than
\* another never scores lower than it.
C9_ScoreMonotonic ==
    sScores # <<>> =>
        /\ (Cardinality(Signals(sA)) = 4 /\ Signals(sB) = {}) => sScores[1] > sScores[2]
        /\ (Signals(sA) \subseteq Signals(sB) /\ Cardinality(Signals(sB) \ Signals(sA)) = 1) =>
            sScores[2] >= sScores[1]

C9_AllSignalsAgainstNone ==
    /\ sScores # <<>>
    /\ Cardinality(Signals(sA)) = 4
    /\ Signals(sB) = {}
    /\ sSim = 17

(***************************************************************************)
(* Claims about the HTTP entry point, checked under SpecApi.               *)
(***************************************************************************)
\* C10: an upload whose name does not end in .txt is left out of the
\* document map; when no upload remains the request ends with a 400
\* error, an outcome different from the one of a run whose core extracts
\* no topics, and the core is never invoked.
NoTopicsResponse ==
    HandlerResponse([type |-> "ValueError", msg |-> "No topics were extracted from documents"])

C10_EmptyUploadIs400 ==
    /\ \A n \in DOMAIN adocs : n.suffix = ".txt"
    /\ (apc = "responded" /\ akey /\ anext > Len(afiles) /\ adocs = EmptyDict) =>
        /\ acore = 0
        /\ aresp.status = 400
        /\ aresp.status # NoTopicsResponse.status

====
